---- MODULE Spec2Model ----
(***************************************************************************)
(* Blog Post Generator (post_generator.py): the "Add Post" handler         *)
(* BlogTool.add_post, the form it reads, the JSON index posts.json and the *)
(* output folder blogposts/ it writes.                                     *)
(*                                                                         *)
(* Texts the handler only copies (title, category, image, description,    *)
(* date) are strings.  Texts it transforms (the content, which is          *)
(* stripped, and the popularity, which is parsed by int()) are sequences   *)
(* of text pieces, each whitespace character, sign and digit a piece of    *)
(* its own.  The index file is a sequence of JSON tokens,                  *)
(* so that json.dump / json.load and a write that stops half way are what  *)
(* they are in the program.                                                *)
(***************************************************************************)
EXTENDS Integers, Sequences, FiniteSets, TLC

\* ------------------------------------------------------------ configuration
POSTS_JSON_PATH == "posts.json"
BLOGPOSTS_FOLDER == "blogposts"

\* ------------------------------------------------------------------ bounds
\* Longest index the operator starts with.
MaxInitLen == 3
\* Number of add_post runs that pass validation in one behaviour.
MaxPublish == 2
\* Number of I/O failures (makedirs, HTML write, index write) in one behaviour.
MaxFaults == 1

\* Ids of the posts already in the index when the tool is started.
InitIds == {1, 3, 5}

\* ------------------------------------------------------------ text helpers
Whitespace == {" ", "\t", "\n"}
DigitChars == <<"0", "1", "2", "3", "4", "5", "6", "7", "8", "9">>
Digits == {DigitChars[i] : i \in 1..10}
DigitVal(c) == (CHOOSE i \in 1..10 : DigitChars[i] = c) - 1

\* str.strip(): leading and trailing whitespace removed.
RECURSIVE LStrip(_)
LStrip(s) ==
    IF s # <<>> /\ Head(s) \in Whitespace THEN LStrip(Tail(s)) ELSE s

RECURSIVE RStrip(_)
RStrip(s) ==
    IF s # <<>> /\ s[Len(s)] \in Whitespace
    THEN RStrip(SubSeq(s, 1, Len(s) - 1))
    ELSE s

Strip(s) == RStrip(LStrip(s))

\* The digits of an int() literal: digits, with single underscores between.
IsDigitRun(s) ==
    /\ s # <<>>
    /\ \A i \in 1..Len(s) : s[i] \in Digits \cup {"_"}
    /\ s[1] \in Digits
    /\ s[Len(s)] \in Digits
    /\ \A i \in 1..(Len(s) - 1) : ~(s[i] = "_" /\ s[i + 1] = "_")

RECURSIVE DigitRunVal(_)
DigitRunVal(s) ==
    IF s = <<>> THEN 0
    ELSE IF s[Len(s)] = "_" THEN DigitRunVal(SubSeq(s, 1, Len(s) - 1))
    ELSE 10 * DigitRunVal(SubSeq(s, 1, Len(s) - 1)) + DigitVal(s[Len(s)])

\* int(text): surrounding whitespace and one sign are accepted; anything else
\* raises ValueError.
ParseInt(text) ==
    LET s == Strip(text)
        signed == s # <<>> /\ s[1] \in {"+", "-"}
        body == IF signed THEN Tail(s) ELSE s
    IN  IF IsDigitRun(body)
        THEN [ok |-> TRUE,
              value |-> IF signed /\ s[1] = "-" THEN 0 - DigitRunVal(body)
                        ELSE DigitRunVal(body)]
        ELSE [ok |-> FALSE, value |-> 0]

\* ------------------------------------------------------------- the records
\* f"{BLOGPOSTS_FOLDER}/post{new_id}.html"
PostUrl(id) == BLOGPOSTS_FOLDER \o "/post" \o ToString(id) \o ".html"

\* f"post{new_id}.html"
PostFileName(id) == "post" \o ToString(id) \o ".html"

\* os.path.join on the POSIX systems the relative paths are written for.
PathJoin(dir, name) == dir \o "/" \o name

\* post.get(key, default)
Get(post, key, default) ==
    IF key \in DOMAIN post THEN post[key] ELSE default

\* HTML_TEMPLATE.format(...): the template's placeholders in document order,
\* each replaced verbatim by its value; the literal text between them is fixed.
Render(title, date, category, image_url, content) ==
    <<[slot |-> "title", text |-> <<title>>],
      [slot |-> "title", text |-> <<title>>],
      [slot |-> "date", text |-> <<date>>],
      [slot |-> "category", text |-> <<category>>],
      [slot |-> "image_url", text |-> <<image_url>>],
      [slot |-> "title", text |-> <<title>>],
      [slot |-> "content", text |-> content]>>

\* ------------------------------------------------------------ the JSON file
LBracket == [t |-> "["]
RBracket == [t |-> "]"]
Comma == [t |-> ","]
Obj(r) == [t |-> "object", v |-> r]

\* json.dump(posts, f, indent=2): "[", the objects separated by ",", "]".
RECURSIVE DumpItems(_)
DumpItems(posts) ==
    IF posts = <<>> THEN <<>>
    ELSE IF Len(posts) = 1 THEN <<Obj(posts[1])>>
    ELSE <<Obj(posts[1]), Comma>> \o DumpItems(Tail(posts))

JsonDump(posts) == <<LBracket>> \o DumpItems(posts) \o <<RBracket>>

\* The items between the brackets: object ("," object)*.
RECURSIVE ParseItems(_)
ParseItems(toks) ==
    IF toks = <<>> THEN [ok |-> TRUE, value |-> <<>>]
    ELSE IF toks[1].t # "object" THEN [ok |-> FALSE, value |-> <<>>]
    ELSE IF Len(toks) = 1 THEN [ok |-> TRUE, value |-> <<toks[1].v>>]
    ELSE IF toks[2].t # "," \/ Len(toks) = 2 THEN [ok |-> FALSE, value |-> <<>>]
    ELSE LET rest == ParseItems(SubSeq(toks, 3, Len(toks)))
         IN  [ok |-> rest.ok,
              value |-> IF rest.ok THEN <<toks[1].v>> \o rest.value ELSE <<>>]

\* json.load(f): kind "list" for an array of objects, kind "dict" for a single
\* top-level object, kind "error" (JSONDecodeError) for everything else.
JsonLoad(toks) ==
    IF Len(toks) = 1 /\ toks[1].t = "object"
    THEN [kind |-> "dict", value |-> <<>>]
    ELSE IF Len(toks) >= 2 /\ toks[1].t = "[" /\ toks[Len(toks)].t = "]"
    THEN LET items == ParseItems(SubSeq(toks, 2, Len(toks) - 1))
         IN  IF items.ok THEN [kind |-> "list", value |-> items.value]
             ELSE [kind |-> "error", value |-> <<>>]
    ELSE [kind |-> "error", value |-> <<>>]

\* ---------------------------------------------------------------- the form
\* The six texts of the form: five QLineEdit and the QTextEdit.
EmptyFields ==
    [title |-> "", category |-> "", image |-> "", description |-> "",
     popularity |-> <<>>, content |-> <<>>]

Hello ==
    [title |-> "Hello", category |-> "News", image |-> "",
     description |-> "First post", popularity |-> <<"5", "0">>,
     content |-> <<" ", "<p>Hi</p>", "\n">>]

World ==
    [title |-> "World", category |-> "Tips", image |-> "img.png",
     description |-> "Second post", popularity |-> <<" ", "+", "7">>,
     content |-> <<"<p>Yo</p>">>]

\* What the operator may type: two complete forms, and forms that are
\* complete except for one field.
Inputs ==
    {Hello, World, EmptyFields,
     [Hello EXCEPT !.title = ""],
     [Hello EXCEPT !.category = ""],
     [Hello EXCEPT !.description = ""],
     [Hello EXCEPT !.content = <<" ", "\n">>],
     [Hello EXCEPT !.popularity = <<"5", ".", "0">>],
     [World EXCEPT !.popularity = <<>>]}

\* datetime.now().strftime("%B %d, %Y")
Dates == {"June 05, 2025"}

\* The texts of the message boxes.
MsgMissing == "Please fill in all fields."
MsgNotNumber == "Popularity must be a number."
MsgSuccess == "Post was added successfully!"
\* An exception left the handler: no message box, the traceback is printed.
MsgTraceback == "Traceback"

\* ---------------------------------------------------------------- the state
VARIABLES
    fields,      \* per tool instance: the texts in the form
    dialog,      \* per tool instance: the last message shown ("none" if none)
    pc,          \* per tool instance: where add_post is
    post_data,   \* add_post's local post_data
    popularity,  \* add_post's local popularity
    posts,       \* add_post's local posts
    new_id,      \* add_post's local new_id
    index,       \* the file posts.json: whether it exists, and its tokens
    folder,      \* whether the directory blogposts exists
    files,       \* the files in blogposts: path -> content
    assigned,    \* history: the values of new_id, in the order they were computed
    faults       \* history: the number of I/O failures so far

vars ==
    <<fields, dialog, pc, post_data, popularity, posts, new_id, index, folder,
      files, assigned, faults>>

Procs == DOMAIN pc

NoData == [title |-> "", category |-> "", image |-> "", description |-> "",
           content |-> <<>>]

\* lines 146-152: the form's texts, the content stripped.
PostData(f) ==
    [title |-> f.title, category |-> f.category, image |-> f.image,
     description |-> f.description, content |-> Strip(f.content)]

\* A faulty variant: the description is not among the fields checked.
AllFilledButDescription(d) ==
    /\ d.title # ""
    /\ d.category # ""
    /\ d.content # <<>>

\* line 154: all([title, category, description, content])
AllFilled(d) ==
    /\ d.title # ""
    /\ d.category # ""
    /\ d.description # ""
    /\ d.content # <<>>

LastOf(seq) == seq[Len(seq)]

SetMax(S) == CHOOSE m \in S : \A x \in S : x <= m

\* A faulty variant: the id taken from the number of records.
NewIdByCount(ps) == Len(ps) + 1

\* A faulty variant: the id taken from the last record, as if the index were sorted.
NewIdAfterLast(ps) ==
    IF ps = <<>> THEN 1 ELSE Get(LastOf(ps), "id", 0) + 1

\* line 170: max([post.get('id', 0) for post in posts] + [0]) + 1
NewId(ps) ==
    SetMax({Get(ps[i], "id", 0) : i \in 1..Len(ps)} \cup {0}) + 1

\* A faulty variant: the entry is put in front.
PrependEntry(loaded, entry) == <<entry>> \o loaded

\* line 182: posts.append(new_post_entry)
AppendEntry(loaded, entry) == Append(loaded, entry)

\* lines 172-181
NewPostEntry(id, d, pop, date) ==
    [id |-> id, image |-> d.image, date |-> date, category |-> d.category,
     title |-> d.title, description |-> d.description, url |-> PostUrl(id),
     popularity |-> pop]

\* A faulty variant: the page is written to the working directory.
FilePathWithoutFolder(id) == PostFileName(id)

\* line 195
FilePath(id) == PathJoin(BLOGPOSTS_FOLDER, PostFileName(id))

\* open(path, 'w') followed by a complete write.
PutFile(fs, path, content) ==
    [q \in DOMAIN fs \cup {path} |-> IF q = path THEN content ELSE fs[q]]

\* What a write that fails leaves in the file: nothing, or a proper prefix.
Partial(content) == {SubSeq(content, 1, k) : k \in 0..(Len(content) - 1)}

\* ------------------------------------------------------------ initial state
\* A post published earlier, and its page.
OldPost(i) ==
    [id |-> i, image |-> "", date |-> "May 01, 2025", category |-> "News",
     title |-> "Old", description |-> "Old post", url |-> PostUrl(i),
     popularity |-> 10]

\* A record written by hand, without an id.
HandPost ==
    [image |-> "", date |-> "May 01, 2025", category |-> "News",
     title |-> "About", description |-> "About", url |-> "blogposts/about.html",
     popularity |-> 1]

OldPage == Render("Old", "May 01, 2025", "News", "", <<"<p>Old</p>">>)

\* Sequences of posts with pairwise different ids, in any order.
InitLists ==
    LET idSeqs == {s \in UNION {[1..n -> InitIds] : n \in 0..MaxInitLen} :
                      \A i, j \in DOMAIN s : i # j => s[i] # s[j]}
    IN  {[i \in DOMAIN s |-> OldPost(s[i])] : s \in idSeqs}
        \cup {<<HandPost>>, <<HandPost, OldPost(3)>>}

\* posts.json when the tool is started: absent, an array of posts, an empty
\* file, a file cut short, or a JSON document that is not an array.
InitIndexes ==
    {[exists |-> FALSE, text |-> <<>>]}
    \cup {[exists |-> TRUE, text |-> JsonDump(l)] : l \in InitLists}
    \cup {[exists |-> TRUE, text |-> <<>>],
          [exists |-> TRUE, text |-> <<LBracket, Obj(OldPost(1))>>],
          [exists |-> TRUE, text |-> <<Obj(OldPost(1))>>]}

\* The pages of the posts of an index.
PagesOf(ix) ==
    LET l == JsonLoad(ix.text).value
        urls == {l[i].url : i \in 1..Len(l)}
    IN  [q \in urls |-> OldPage]

InitFor(ps, indexes) ==
    /\ fields = [p \in ps |-> EmptyFields]
    /\ dialog = [p \in ps |-> "none"]
    /\ pc = [p \in ps |-> "idle"]
    /\ post_data = [p \in ps |-> NoData]
    /\ popularity = [p \in ps |-> 0]
    /\ posts = [p \in ps |-> <<>>]
    /\ new_id = [p \in ps |-> 0]
    /\ index \in indexes
    /\ files = PagesOf(index)
    /\ folder \in (IF DOMAIN files = {} THEN BOOLEAN ELSE {TRUE})
    /\ assigned = <<>>
    /\ faults = 0

Init == InitFor({1}, InitIndexes)

\* ------------------------------------------------------------------ actions
\* The operator types one of `choices` into the form (the message box, if
\* any, is dismissed).
EditForm(p, choices) ==
    /\ pc[p] = "idle"
    /\ \E raw \in choices :
          /\ raw # fields[p]
          /\ fields' = [fields EXCEPT ![p] = raw]
    /\ dialog' = [dialog EXCEPT ![p] = "none"]
    /\ UNCHANGED <<pc, post_data, popularity, posts, new_id, index, folder,
                   files, assigned, faults>>

Edit(p) == EditForm(p, Inputs)

\* The operator types a complete form.
EditValid(p) == EditForm(p, {Hello, World})

\* add_post returns: its locals are gone.
Return(p, msg, form) ==
    /\ pc' = [pc EXCEPT ![p] = "idle"]
    /\ dialog' = [dialog EXCEPT ![p] = msg]
    /\ fields' = [fields EXCEPT ![p] = form]
    /\ post_data' = [post_data EXCEPT ![p] = NoData]
    /\ popularity' = [popularity EXCEPT ![p] = 0]
    /\ posts' = [posts EXCEPT ![p] = <<>>]
    /\ new_id' = [new_id EXCEPT ![p] = 0]

\* An exception nothing catches leaves add_post: PyQt6 ends the program on an
\* unhandled exception in a slot, and the operator starts it again with an
\* empty form.
Raise(p) == Return(p, MsgTraceback, EmptyFields)

\* lines 146-156: "Add Post" with a required field empty.
RejectMissing(p) ==
    /\ pc[p] = "idle"
    /\ ~AllFilled(PostData(fields[p]))
    /\ dialog' = [dialog EXCEPT ![p] = MsgMissing]
    /\ UNCHANGED <<fields, pc, post_data, popularity, posts, new_id, index,
                   folder, files, assigned, faults>>

\* lines 158-162: "Add Post" with a popularity int() does not accept.
RejectPopularity(p) ==
    /\ pc[p] = "idle"
    /\ AllFilled(PostData(fields[p]))
    /\ ~ParseInt(fields[p].popularity).ok
    /\ dialog' = [dialog EXCEPT ![p] = MsgNotNumber]
    /\ UNCHANGED <<fields, pc, post_data, popularity, posts, new_id, index,
                   folder, files, assigned, faults>>

Valid(f) == AllFilled(PostData(f)) /\ ParseInt(f.popularity).ok

\* lines 164-168: the list add_post works on.
LoadPosts(ix) ==
    IF ~ix.exists THEN <<>>
    ELSE IF JsonLoad(ix.text).kind = "list" THEN JsonLoad(ix.text).value
    ELSE <<>>

\* lines 146-182: a valid form; the index is read, the id computed, the entry
\* appended to the local list.
ReadIndex(p) ==
    /\ pc[p] = "idle"
    /\ Valid(fields[p])
    /\ Len(assigned) < MaxPublish
    /\ ~(index.exists /\ JsonLoad(index.text).kind = "dict")
    /\ \E date \in Dates :
          LET d == PostData(fields[p])
              pop == ParseInt(fields[p].popularity).value
              loaded == LoadPosts(index)
              id == NewId(loaded)
          IN  /\ post_data' = [post_data EXCEPT ![p] = d]
              /\ popularity' = [popularity EXCEPT ![p] = pop]
              /\ new_id' = [new_id EXCEPT ![p] = id]
              /\ posts' = [posts EXCEPT ![p] =
                              AppendEntry(loaded, NewPostEntry(id, d, pop, date))]
              /\ assigned' = Append(assigned, id)
    /\ pc' = [pc EXCEPT ![p] = "exists"]
    /\ dialog' = [dialog EXCEPT ![p] = "none"]
    /\ UNCHANGED <<fields, index, folder, files, faults>>

\* lines 164-182 when posts.json holds a JSON document that is not an array:
\* json.load succeeds, and the comprehension or posts.append raises
\* AttributeError, which the except clause does not name.
ReadIndexRaises(p) ==
    /\ pc[p] = "idle"
    /\ Valid(fields[p])
    /\ index.exists /\ JsonLoad(index.text).kind = "dict"
    /\ Raise(p)
    /\ UNCHANGED <<index, folder, files, assigned, faults>>

\* line 184: os.path.exists(BLOGPOSTS_FOLDER)
CheckFolder(p) ==
    /\ pc[p] = "exists"
    /\ pc' = [pc EXCEPT ![p] = IF folder THEN "html" ELSE "makedirs"]
    /\ UNCHANGED <<fields, dialog, post_data, popularity, posts, new_id, index,
                   folder, files, assigned, faults>>

\* line 185: os.makedirs(BLOGPOSTS_FOLDER); FileExistsError when the folder
\* was created since line 184.
MakeDirs(p) ==
    /\ pc[p] = "makedirs"
    /\ IF folder
       THEN Raise(p) /\ UNCHANGED folder
       ELSE /\ folder' = TRUE
            /\ pc' = [pc EXCEPT ![p] = "html"]
            /\ UNCHANGED <<fields, dialog, post_data, popularity, posts, new_id>>
    /\ UNCHANGED <<index, files, assigned, faults>>

\* line 185 failing with OSError.
MakeDirsFails(p) ==
    /\ pc[p] = "makedirs"
    /\ ~folder
    /\ faults < MaxFaults
    /\ faults' = faults + 1
    /\ Raise(p)
    /\ UNCHANGED <<index, folder, files, assigned>>

\* lines 187-193
HtmlContent(p) ==
    Render(post_data[p].title, LastOf(posts[p]).date,
           post_data[p].category, post_data[p].image, post_data[p].content)

\* A faulty variant: add_post goes on to the index without writing the page.
WriteHtmlSkipped(p) ==
    /\ pc[p] = "html"
    /\ pc' = [pc EXCEPT ![p] = "index"]
    /\ UNCHANGED <<fields, dialog, post_data, popularity, posts, new_id, index,
                   folder, files, assigned, faults>>

\* lines 187-197: the page is written.
WriteHtml(p) ==
    /\ pc[p] = "html"
    /\ files' = PutFile(files, FilePath(new_id[p]), HtmlContent(p))
    /\ pc' = [pc EXCEPT ![p] = "index"]
    /\ UNCHANGED <<fields, dialog, post_data, popularity, posts, new_id, index,
                   folder, assigned, faults>>

\* lines 196-197 failing with OSError: open() fails and the file is as it was,
\* or the write fails after open() has created or emptied the file.
WriteHtmlFails(p) ==
    /\ pc[p] = "html"
    /\ faults < MaxFaults
    /\ faults' = faults + 1
    /\ \/ UNCHANGED files
       \/ \E part \in Partial(HtmlContent(p)) :
             files' = PutFile(files, FilePath(new_id[p]), part)
    /\ Raise(p)
    /\ UNCHANGED <<index, folder, assigned>>

\* A faulty variant: the index is read again and the entry appended to what it holds now.
WriteIndexMerged(p) ==
    /\ pc[p] = "index"
    /\ index' = [exists |-> TRUE,
                 text |-> JsonDump(Append(LoadPosts(index), LastOf(posts[p])))]
    /\ Return(p, MsgSuccess, EmptyFields)
    /\ UNCHANGED <<folder, files, assigned, faults>>

\* lines 199-203: the index is rewritten, the success box shown, the form
\* cleared.
WriteIndex(p) ==
    /\ pc[p] = "index"
    /\ index' = [exists |-> TRUE, text |-> JsonDump(posts[p])]
    /\ Return(p, MsgSuccess, EmptyFields)
    /\ UNCHANGED <<folder, files, assigned, faults>>

\* lines 199-200 failing with OSError: open() fails and the file is as it
\* was, or the write fails after open() has created or emptied the file.
WriteIndexFails(p) ==
    /\ pc[p] = "index"
    /\ faults < MaxFaults
    /\ faults' = faults + 1
    /\ \/ UNCHANGED index
       \/ \E part \in Partial(JsonDump(posts[p])) :
             index' = [exists |-> TRUE, text |-> part]
    /\ Raise(p)
    /\ UNCHANGED <<folder, files, assigned>>

\* One operator, one instance of the tool.
Next ==
    \/ \E p \in Procs : Edit(p)
    \/ \E p \in Procs : RejectMissing(p)
    \/ \E p \in Procs : RejectPopularity(p)
    \/ \E p \in Procs : ReadIndex(p)
    \/ \E p \in Procs : ReadIndexRaises(p)
    \/ \E p \in Procs : CheckFolder(p)
    \/ \E p \in Procs : MakeDirs(p)
    \/ \E p \in Procs : MakeDirsFails(p)
    \/ \E p \in Procs : WriteHtml(p)
    \/ \E p \in Procs : WriteHtmlFails(p)
    \/ \E p \in Procs : WriteIndex(p)
    \/ \E p \in Procs : WriteIndexFails(p)

Spec == Init /\ [][Next]_vars

\* Two instances of the tool run on the same directory.
InitTwo ==
    InitFor({1, 2},
            {[exists |-> FALSE, text |-> <<>>],
             [exists |-> TRUE, text |-> JsonDump(<<OldPost(3), OldPost(1)>>)]})

\* Both operators type complete forms, and no I/O fails.
NextTwo ==
    \/ \E p \in Procs : EditValid(p)
    \/ \E p \in Procs : ReadIndex(p)
    \/ \E p \in Procs : CheckFolder(p)
    \/ \E p \in Procs : MakeDirs(p)
    \/ \E p \in Procs : WriteHtml(p)
    \/ \E p \in Procs : WriteIndex(p)

SpecTwo == InitTwo /\ [][NextTwo]_vars

\* ------------------------------------------------------------------ claims
\* The records posts.json holds: those of a well-formed array, none otherwise.
IndexRecords(ix) ==
    IF ix.exists /\ JsonLoad(ix.text).kind = "list"
    THEN JsonLoad(ix.text).value
    ELSE <<>>

\* The ids present in a sequence of records.
IdsOf(recs) ==
    {recs[i].id : i \in {j \in 1..Len(recs) : "id" \in DOMAIN recs[j]}}

InFlight(p) == pc[p] \in {"exists", "makedirs", "html", "index"}

\* The step is p's add_post returning after the success box.
Succeeds(p) ==
    pc[p] = "index" /\ pc'[p] = "idle" /\ dialog'[p] = MsgSuccess

\* The step is p's add_post being left by an exception.
Fails(p) ==
    /\ pc'[p] = "idle"
    /\ dialog'[p] = MsgTraceback
    /\ InFlight(p) \/ Valid(fields[p])

\* The step is a click on "Add Post" by p.
Clicks(p) ==
    /\ pc[p] = "idle"
    /\ pc'[p] # pc[p] \/ dialog'[p] # dialog[p] \/ fields'[p] # fields[p]
    /\ \/ pc'[p] # "idle"
       \/ fields'[p] = fields[p]
       \/ dialog'[p] = MsgTraceback

\* C1: a publish that succeeds appends a record whose id is greater than every
\* id the index held and is 1 or the successor of one of them; it is 1 when
\* the index held no record (empty, absent, unreadable), and 6 when the index
\* held the ids 3, 1, 5 in whatever order.
C1_NextId ==
    [][\A p \in Procs :
          Succeeds(p) =>
             LET ids == IdsOf(IndexRecords(index))
                 after == IndexRecords(index')
             IN  /\ after # <<>>
                 /\ \A i \in ids : i < LastOf(after).id
                 /\ LastOf(after).id = 1 \/ (LastOf(after).id - 1) \in ids
                 /\ ids = {} => LastOf(after).id = 1
                 /\ ids = {1, 3, 5} => LastOf(after).id = 6]_vars

C1_Witness ==
    /\ dialog[1] = MsgSuccess
    /\ Len(IndexRecords(index)) = 4
    /\ [i \in 1..4 |-> IndexRecords(index)[i].id] = <<3, 1, 5, 6>>

\* A form the claim says is rejected.
Deficient(f) ==
    \/ f.title = ""
    \/ f.category = ""
    \/ f.description = ""
    \/ Strip(f.content) = <<>>
    \/ ~ParseInt(f.popularity).ok

\* C2: a click on a form with an empty title, category or description, a
\* content that is empty once stripped, or a popularity that is no integer
\* ends in one of the two error boxes, with posts.json, the folder and its
\* files as they were.
C2_Rejects ==
    [][\A p \in Procs :
          (Clicks(p) /\ Deficient(fields[p])) =>
             /\ pc'[p] = "idle"
             /\ dialog'[p] \in {MsgMissing, MsgNotNumber}
             /\ index' = index
             /\ files' = files
             /\ folder' = folder]_vars

C2_Witness ==
    /\ dialog[1] = MsgNotNumber
    /\ fields[1].popularity = <<"5", ".", "0">>
    /\ IndexRecords(index) # <<>>

\* C3 (as claimed): a click on a valid form, when posts.json is absent or does
\* not hold an array of records, raises nothing and assigns id 1 to a
\* one-record list.
C3_SilentFallback ==
    [][\A p \in Procs :
          (/\ Clicks(p)
           /\ Valid(fields[p])
           /\ ~(index.exists /\ JsonLoad(index.text).kind = "list")) =>
             /\ dialog'[p] # MsgTraceback
             /\ new_id'[p] = 1
             /\ Len(posts'[p]) = 1]_vars

\* C4: a publish that succeeds on a well-formed index leaves the records the
\* index held, unchanged and in the same order, followed by one new record.
C4_AppendOnly ==
    [][\A p \in Procs :
          (Succeeds(p) /\ index.exists /\ JsonLoad(index.text).kind = "list") =>
             LET before == IndexRecords(index)
                 after == IndexRecords(index')
             IN  /\ Len(after) = Len(before) + 1
                 /\ SubSeq(after, 1, Len(before)) = before
                 /\ LastOf(after).title = post_data[p].title]_vars

C4_Witness ==
    /\ dialog[1] = MsgSuccess
    /\ Len(assigned) = 2
    /\ Len(IndexRecords(index)) = 5
    /\ IndexRecords(index)[4].title # IndexRecords(index)[5].title

\* C5: in every state every record of the index names a file that exists, and
\* a publish that is about to rewrite the index has its page on disk; a
\* publish whose page write fails leaves posts.json as it was.
C5_PageBeforeIndex ==
    /\ [](/\ \A i \in 1..Len(IndexRecords(index)) :
                IndexRecords(index)[i].url \in DOMAIN files
          /\ \A p \in Procs :
                pc[p] = "index" => LastOf(posts[p]).url \in DOMAIN files)
    /\ [][\A p \in Procs :
             (pc[p] = "html" /\ Fails(p)) => index' = index]_vars

C5_Witness ==
    /\ faults = 1
    /\ dialog[1] = MsgTraceback
    /\ Len(assigned) = 2
    /\ \E i \in 1..Len(IndexRecords(index)) :
          IndexRecords(index)[i].title = "Hello"

\* C6 (as claimed): when add_post is left by an exception, posts.json holds
\* the records it held before the step.
C6_FailureKeepsIndex ==
    [][\A p \in Procs :
          Fails(p) => IndexRecords(index') = IndexRecords(index)]_vars

\* No two records of the sequence carry the same id.
NoDuplicateIds(recs) ==
    \A i, j \in 1..Len(recs) :
       (i # j /\ "id" \in DOMAIN recs[i] /\ "id" \in DOMAIN recs[j])
          => recs[i].id # recs[j].id

\* C7: one operator, an index that starts without duplicate ids: the index
\* never holds two records with the same id, every id assigned is positive,
\* and as long as no I/O has failed the ids assigned are strictly increasing.
C7_UniqueIncreasing ==
    /\ NoDuplicateIds(IndexRecords(index))
    /\ \A i \in 1..Len(assigned) : assigned[i] >= 1
    /\ faults = 0 =>
          \A i, j \in 1..Len(assigned) : i < j => assigned[i] < assigned[j]

C7_Witness ==
    /\ faults = 0
    /\ Len(assigned) = 2
    /\ pc[1] = "idle"
    /\ Len(IndexRecords(index)) = 4
    /\ dialog[1] = MsgNotNumber

\* The page is whole: every placeholder of the template was written.
WholePage(content) == Len(content) = 7

\* C8 (as claimed): a page that was written whole is never written again.
C8_NeverRewritten ==
    [][\A f \in DOMAIN files :
          WholePage(files[f]) => (f \in DOMAIN files' /\ files'[f] = files[f])]_vars

\* C9: the record a successful publish appends has the url
\* "blogposts/post<id>.html" of its own id, and the file of that name holds
\* the page of that record; after successful publishes only, from an index
\* without records, the files are exactly the pages of the records.
C9_UrlNamesOwnFile ==
    /\ [][\A p \in Procs :
             Succeeds(p) =>
                LET rec == LastOf(IndexRecords(index'))
                    name == "blogposts/post" \o ToString(rec.id) \o ".html"
                IN  /\ rec.url = name
                    /\ rec.id = 1 => rec.url = "blogposts/post1.html"
                    /\ name \in DOMAIN files
                    /\ WholePage(files[name])
                    /\ files[name][1].text = <<rec.title>>]_vars
    /\ [](( /\ faults = 0
            /\ \A p \in Procs : pc[p] = "idle"
            /\ Len(IndexRecords(index)) = Len(assigned))
          => LET recs == IndexRecords(index)
             IN  /\ DOMAIN files = {recs[i].url : i \in 1..Len(recs)}
                 /\ Cardinality(DOMAIN files) = Len(recs)
                 /\ \A i \in 1..Len(recs) :
                       files[recs[i].url][1].text = <<recs[i].title>>)

C9_Witness ==
    /\ faults = 0
    /\ pc[1] = "idle"
    /\ Len(assigned) = 2
    /\ Len(IndexRecords(index)) = 2
    /\ IndexRecords(index)[2].url = "blogposts/post2.html"
    /\ IndexRecords(index)[1].title # IndexRecords(index)[2].title

\* C10: two instances that have both read the same index and not yet written
\* it hold the same new id and the same page path; and the index after a
\* successful write is the writer's own list, whatever was stored since the
\* writer read it.
C10_LastWriterWins ==
    /\ [](\A p, q \in Procs :
             (/\ p # q
              /\ InFlight(p)
              /\ InFlight(q)
              /\ IndexRecords(index) = SubSeq(posts[p], 1, Len(posts[p]) - 1)
              /\ IndexRecords(index) = SubSeq(posts[q], 1, Len(posts[q]) - 1))
                => /\ new_id[p] = new_id[q]
                   /\ FilePath(new_id[p]) = FilePath(new_id[q])
                   /\ LastOf(posts[p]).url = LastOf(posts[q]).url)
    /\ [][\A p \in Procs :
             Succeeds(p) => IndexRecords(index') = posts[p]]_vars

\* Both instances showed the success box, both were given id 1, and the index
\* holds one record: the other post is lost.
C10_Witness ==
    /\ dialog[1] = MsgSuccess
    /\ dialog[2] = MsgSuccess
    /\ assigned = <<1, 1>>
    /\ Len(IndexRecords(index)) = 1
    /\ Cardinality(DOMAIN files) = 1

====
